---- MODULE Spec2Model ----
(***************************************************************************)
(* Model of inventory_system.py: the module-level dict stock_data, the     *)
(* operations add_item, remove_item, get_qty, check_low_items, print_data, *)
(* save_data and load_data, and the JSON file they persist to.             *)
(*                                                                         *)
(* A Python str is a sequence of one-character strings, so that the JSON   *)
(* text written by save_data and parsed by load_data is a sequence of      *)
(* characters.  A Python dict is a sequence of [key, val] records in       *)
(* insertion order.  A Python value passed as an argument is a record      *)
(* [t, s, n]: its type name, its text when it is a str, its number when    *)
(* it is an int or a float.                                                *)
(***************************************************************************)
EXTENDS Integers, Sequences, FiniteSets

\* Largest magnitude of a quantity, of an argument and of a stored value.
MaxQty == 2

---------------------------------------------------------------------------
\* Python values

PyStr(s) == [t |-> "str", s |-> s, n |-> 0]
PyInt(n) == [t |-> "int", s |-> <<>>, n |-> n]
PyFloat(n) == [t |-> "float", s |-> <<>>, n |-> n]

\* isinstance(x, str), isinstance(x, int)
IsStr(x) == x.t = "str"
\* (faulty variant: floats pass the check of qty)
IsIntOrFloat(x) == x.t \in {"int", "float"}
IsInt(x) == x.t = "int"

\* The item names used: the empty name and the two-character name a" .
EmptyName == <<>>
NameQ == <<"a", "\"">>
Names == {EmptyName, NameQ}

Quantities == (0 - MaxQty)..MaxQty
Thresholds == (0 - MaxQty)..(MaxQty + 1)

\* Arguments of a call: well typed ones, and an item that is the int 7,
\* a qty that is the float 1.0 or a str.
ItemArgs == {PyStr(s) : s \in Names} \cup {PyInt(7)}
QtyArgs == {PyInt(n) : n \in Quantities} \cup {PyFloat(1), PyStr(NameQ)}

\* The logs argument of add_item: None, an empty list, a list holding an
\* earlier entry.  An entry is f"{timestamp}: Added {qty} of {item}" with the
\* timestamp left out.
Entry(qty, item) == [qty |-> qty, item |-> item]
NoLogs == [given |-> FALSE, entries |-> <<>>]
LogsArgs == {NoLogs, [given |-> TRUE, entries |-> <<>>],
             [given |-> TRUE, entries |-> <<Entry(1, NameQ)>>]}

---------------------------------------------------------------------------
\* dict operations, insertion ordered

Keys(d) == {d[i].key : i \in 1..Len(d)}
KeyList(d) == [i \in 1..Len(d) |-> d[i].key]
DictHas(d, k) == \E i \in 1..Len(d) : d[i].key = k
DictIndex(d, k) == CHOOSE i \in 1..Len(d) : d[i].key = k
\* d.get(k, default)
DictGet(d, k, default) == IF DictHas(d, k) THEN d[DictIndex(d, k)].val ELSE default
\* d[k] = v : an existing key keeps its place, a new key goes last
DictSet(d, k, v) ==
    IF DictHas(d, k)
    THEN [i \in 1..Len(d) |-> IF d[i].key = k THEN [key |-> k, val |-> v] ELSE d[i]]
    ELSE Append(d, [key |-> k, val |-> v])
IsNotKey(e, k) == e.key # k
\* del d[k]
DictDel(d, k) == LET keep(e) == IsNotKey(e, k) IN SelectSeq(d, keep)

---------------------------------------------------------------------------
\* json.dump(stock_data, file, indent=2): the text written

Digit == <<"0", "1", "2", "3", "4", "5", "6", "7", "8", "9">>

RECURSIVE Decimal(_)
Decimal(n) == IF n < 10 THEN <<Digit[n + 1]>>
              ELSE Decimal(n \div 10) \o <<Digit[(n % 10) + 1]>>

JsonInt(n) == IF n < 0 THEN <<"-">> \o Decimal(0 - n) ELSE Decimal(n)

\* a quote or a backslash in a str is written behind a backslash
RECURSIVE JsonEscape(_)
JsonEscape(s) ==
    IF s = <<>> THEN <<>>
    ELSE (IF Head(s) \in {"\"", "\\"} THEN <<"\\", Head(s)>> ELSE <<Head(s)>>)
         \o JsonEscape(Tail(s))

JsonStr(s) == <<"\"">> \o JsonEscape(s) \o <<"\"">>

JsonMember(e) == <<"\n", " ", " ">> \o JsonStr(e.key) \o <<":", " ">> \o JsonInt(e.val)

RECURSIVE JsonMembers(_)
JsonMembers(d) ==
    IF Len(d) = 1 THEN JsonMember(d[1])
    ELSE JsonMember(d[1]) \o <<",">> \o JsonMembers(Tail(d))

JsonDump(d) == IF d = <<>> THEN <<"{", "}">>
               ELSE <<"{">> \o JsonMembers(d) \o <<"\n", "}">>

---------------------------------------------------------------------------
\* json.load(file): the parse of a text, for texts that hold an object of
\* integers; [ok |-> FALSE] is JSONDecodeError.

Whitespace == {" ", "\n", "\t", "\r"}
DigitChars == {Digit[i] : i \in 1..10}
DigitValue(c) == (CHOOSE i \in 1..10 : Digit[i] = c) - 1
Bad == [ok |-> FALSE, pos |-> 0, s |-> <<>>, n |-> 0]

RECURSIVE SkipWs(_, _)
SkipWs(t, i) == IF i <= Len(t) /\ t[i] \in Whitespace THEN SkipWs(t, i + 1) ELSE i

At(t, i, c) == i <= Len(t) /\ t[i] = c

\* the characters of a str from position i, just behind its opening quote
RECURSIVE ScanString(_, _, _)
ScanString(t, i, acc) ==
    IF i > Len(t) THEN Bad
    ELSE IF t[i] = "\"" THEN [ok |-> TRUE, pos |-> i + 1, s |-> acc, n |-> 0]
    ELSE IF t[i] = "\\"
         THEN IF i + 1 <= Len(t) /\ t[i + 1] \in {"\"", "\\"}
              THEN ScanString(t, i + 2, Append(acc, t[i + 1]))
              ELSE Bad
    ELSE IF t[i] = "\n" THEN Bad
    ELSE ScanString(t, i + 1, Append(acc, t[i]))

RECURSIVE ScanDigits(_, _, _)
ScanDigits(t, i, acc) ==
    IF i <= Len(t) /\ t[i] \in DigitChars
    THEN ScanDigits(t, i + 1, 10 * acc + DigitValue(t[i]))
    ELSE [ok |-> TRUE, pos |-> i, s |-> <<>>, n |-> acc]

\* an integer from position i: -? (0 | [1-9][0-9]*)
ScanInt(t, i) ==
    LET neg == At(t, i, "-")
        j == IF neg THEN i + 1 ELSE i
        r == IF At(t, j, "0") THEN [ok |-> TRUE, pos |-> j + 1, s |-> <<>>, n |-> 0]
             ELSE IF j <= Len(t) /\ t[j] \in DigitChars THEN ScanDigits(t, j, 0)
             ELSE Bad
    IN IF r.ok /\ neg THEN [r EXCEPT !.n = 0 - r.n] ELSE r

\* the members of an object from position i, where a key must start
RECURSIVE ScanMembers(_, _, _)
ScanMembers(t, i, acc) ==
    IF ~At(t, i, "\"") THEN [ok |-> FALSE, pos |-> 0, data |-> <<>>]
    ELSE LET k == ScanString(t, i + 1, <<>>)
             c == SkipWs(t, k.pos)
             v == ScanInt(t, SkipWs(t, c + 1))
             e == SkipWs(t, v.pos)
             d == DictSet(acc, k.s, v.n)
         IN IF ~(k.ok /\ At(t, c, ":") /\ v.ok)
            THEN [ok |-> FALSE, pos |-> 0, data |-> <<>>]
            ELSE IF At(t, e, ",") THEN ScanMembers(t, SkipWs(t, e + 1), d)
            ELSE IF At(t, e, "}") THEN [ok |-> TRUE, pos |-> e + 1, data |-> d]
            ELSE [ok |-> FALSE, pos |-> 0, data |-> <<>>]

JsonLoad(t) ==
    LET i == SkipWs(t, 1)
        j == SkipWs(t, i + 1)
        r == IF ~At(t, i, "{") THEN [ok |-> FALSE, pos |-> 0, data |-> <<>>]
             ELSE IF At(t, j, "}") THEN [ok |-> TRUE, pos |-> j + 1, data |-> <<>>]
             ELSE ScanMembers(t, j, <<>>)
    IN IF r.ok /\ SkipWs(t, r.pos) = Len(t) + 1
       THEN [ok |-> TRUE, data |-> r.data]
       ELSE [ok |-> FALSE, data |-> <<>>]


---------------------------------------------------------------------------
VARIABLES
    stock_data,   \* the module-level dict
    file,         \* the file at file_path: [exists, text]
    saved,        \* the dict written by the last save whose file is intact
    op,           \* the name of the last call
    outcome,      \* of the last call: [level, raised]
    ret           \* of the last call: [n, names, lines, logs]

vars == <<stock_data, file, saved, op, outcome, ret>>

NoRet == [n |-> 0, names |-> <<>>, lines |-> <<>>, logs |-> NoLogs]
Outcome(level) == [level |-> level, raised |-> FALSE]

Init ==
    /\ stock_data = <<>>
    /\ file = [exists |-> FALSE, text |-> <<>>]
    /\ saved = [valid |-> FALSE, data |-> <<>>]
    /\ op = "import"
    /\ outcome = Outcome("none")
    /\ ret = NoRet

---------------------------------------------------------------------------
\* the pure reads

\* get_qty: stock_data.get(item, 0)
GetQty(d, item) == DictGet(d, item, 0)

\* check_low_items: the names whose qty is below threshold, in dict order
\* (faulty variant: a qty equal to the threshold counts as low)
IsLowOrEqual(e, threshold) == e.val <= threshold
IsLow(e, threshold) == e.val < threshold
CheckLowItems(d, threshold) ==
    LET low(e) == IsLow(e, threshold) IN KeyList(SelectSeq(d, low))

\* print_data: one line "name -> qty" per entry, in dict order
PrintData(d) == [i \in 1..Len(d) |-> [name |-> d[i].key, qty |-> d[i].val]]

---------------------------------------------------------------------------
\* the operations

\* the store after add_item's line 45
AddStore(d, item, qty) == DictSet(d, item, DictGet(d, item, 0) + qty)

\* (faulty variant: an entry that reaches 0 is kept)
RemoveStoreKeepZero(d, item, qty) ==
    LET dec == DictSet(d, item, DictGet(d, item, 0) - qty)
    IN IF DictGet(dec, item, 0) < 0 THEN DictDel(dec, item) ELSE dec
\* the store after remove_item's lines 72-74, item being a key
RemoveStore(d, item, qty) ==
    LET dec == DictSet(d, item, DictGet(d, item, 0) - qty)
    IN IF DictGet(dec, item, 0) <= 0 THEN DictDel(dec, item) ELSE dec

\* (faulty variant: no membership test, so the decrement of a missing key raises
\* KeyError, which the except clause logs as an error)
RemoveTryNoMembershipTest(d, item, qty) ==
    IF ~DictHas(d, item) THEN [store |-> d, level |-> "error"]
    ELSE [store |-> RemoveStore(d, item, qty), level |-> "info"]
\* remove_item's try block: the store and the log level it ends with
RemoveTry(d, item, qty) ==
    IF ~DictHas(d, item) THEN [store |-> d, level |-> "warning"]
    ELSE [store |-> RemoveStore(d, item, qty), level |-> "info"]

\* (faulty variant: the loaded entries are merged into the store)
LoadedStoreMerged(d, parsed) ==
    LET RECURSIVE Merge(_, _)
        Merge(acc, rest) == IF rest = <<>> THEN acc
                            ELSE Merge(DictSet(acc, Head(rest).key, Head(rest).val), Tail(rest))
    IN Merge(d, parsed)
\* stock_data = json.load(file): the store is the parsed object
LoadedStore(d, parsed) == parsed

\* (faulty variant: the except clauses leave the store as it was)
LoadTryKeepOnFailure(d, f) ==
    IF ~f.exists THEN [store |-> d, level |-> "warning"]
    ELSE IF ~JsonLoad(f.text).ok THEN [store |-> d, level |-> "error"]
    ELSE [store |-> LoadedStore(d, JsonLoad(f.text).data), level |-> "info"]
\* load_data's try block and except clauses: the store and the log level
LoadTry(d, f) ==
    IF ~f.exists THEN [store |-> <<>>, level |-> "warning"]
    ELSE IF ~JsonLoad(f.text).ok THEN [store |-> <<>>, level |-> "error"]
    ELSE [store |-> LoadedStore(d, JsonLoad(f.text).data), level |-> "info"]

add_item(item, qty, logs) ==
    /\ op' = "add_item"
    /\ UNCHANGED <<file, saved>>
    /\ IF ~IsStr(item) \/ ~IsInt(qty)
       THEN /\ outcome' = Outcome("error")
            /\ ret' = [NoRet EXCEPT !.logs = logs]
            /\ UNCHANGED stock_data
       ELSE /\ GetQty(stock_data, item.s) + qty.n \in Quantities
            /\ stock_data' = AddStore(stock_data, item.s, qty.n)
            /\ ret' = [NoRet EXCEPT !.logs =
                          IF logs.given
                          THEN [logs EXCEPT !.entries = Append(@, Entry(qty.n, item.s))]
                          ELSE logs]
            /\ outcome' = Outcome("info")

remove_item(item, qty) ==
    /\ op' = "remove_item"
    /\ ret' = NoRet
    /\ UNCHANGED <<file, saved>>
    /\ IF ~IsStr(item) \/ ~IsInt(qty)
       THEN /\ outcome' = Outcome("error")
            /\ UNCHANGED stock_data
       ELSE /\ GetQty(stock_data, item.s) - qty.n \in Quantities
            /\ stock_data' = RemoveTry(stock_data, item.s, qty.n).store
            /\ outcome' = Outcome(RemoveTry(stock_data, item.s, qty.n).level)

get_qty(item) ==
    /\ op' = "get_qty"
    /\ ret' = [NoRet EXCEPT !.n = GetQty(stock_data, item.s)]
    /\ outcome' = Outcome("none")
    /\ UNCHANGED <<stock_data, file, saved>>

check_low_items(threshold) ==
    /\ op' = "check_low_items"
    /\ ret' = [NoRet EXCEPT !.names = CheckLowItems(stock_data, threshold)]
    /\ outcome' = Outcome("none")
    /\ UNCHANGED <<stock_data, file, saved>>

print_data ==
    /\ op' = "print_data"
    /\ ret' = [NoRet EXCEPT !.lines = PrintData(stock_data)]
    /\ outcome' = Outcome("none")
    /\ UNCHANGED <<stock_data, file, saved>>

\* The lengths a write that fails part way may leave behind.
CutPoints(t) == {0, Len(t) \div 2, Len(t) - 1}

\* how: "ok"; "open" when open() raises IOError and the file is untouched;
\* "write" when the file is opened, emptied, and the write raises IOError
\* part way.
save_data(how) ==
    /\ op' = "save_data"
    /\ ret' = NoRet
    /\ UNCHANGED stock_data
    /\ CASE how = "ok" ->
              /\ file' = [exists |-> TRUE, text |-> JsonDump(stock_data)]
              /\ saved' = [valid |-> TRUE, data |-> stock_data]
              /\ outcome' = Outcome("info")
         [] how = "open" ->
              /\ UNCHANGED <<file, saved>>
              /\ outcome' = Outcome("error")
         [] how = "write" ->
              /\ \E k \in CutPoints(JsonDump(stock_data)) :
                    file' = [exists |-> TRUE, text |-> SubSeq(JsonDump(stock_data), 1, k)]
              /\ saved' = [valid |-> FALSE, data |-> <<>>]
              /\ outcome' = Outcome("error")

load_data ==
    /\ op' = "load_data"
    /\ ret' = NoRet
    /\ UNCHANGED <<file, saved>>
    /\ stock_data' = LoadTry(stock_data, file).store
    /\ outcome' = Outcome(LoadTry(stock_data, file).level)

---------------------------------------------------------------------------
\* Spec: the store operations, on every kind of argument.

Next ==
    \/ \E item \in ItemArgs, qty \in QtyArgs, logs \in LogsArgs : add_item(item, qty, logs)
    \/ \E item \in ItemArgs, qty \in QtyArgs : remove_item(item, qty)
    \/ \E s \in Names : get_qty(PyStr(s))
    \/ \E threshold \in Thresholds : check_low_items(threshold)
    \/ print_data

Spec == Init /\ [][Next]_vars

\* SpecPersist: the store operations on well typed arguments, with save_data
\* and load_data on one path.

PersistQuantities == {-1, 1, 2}

NextPersist ==
    \/ \E s \in Names, n \in PersistQuantities : add_item(PyStr(s), PyInt(n), NoLogs)
    \/ \E s \in Names, n \in PersistQuantities : remove_item(PyStr(s), PyInt(n))
    \/ \E how \in {"ok", "open", "write"} : save_data(how)
    \/ load_data

SpecPersist == Init /\ [][NextPersist]_vars

---------------------------------------------------------------------------
\* Properties

AllPositive(d) == \A i \in 1..Len(d) : d[i].val > 0
Floor0(n) == IF n <= 0 THEN 0 ELSE n
Range(q) == {q[i] : i \in 1..Len(q)}
IllTyped(item, qty) == item.t # "str" \/ qty.t # "int"
\* q holds each of its elements once, in the order the keys have in d
InDictOrder(q, d) ==
    /\ \A i \in 1..Len(q) : DictHas(d, q[i])
    /\ \A i, j \in 1..Len(q) : i < j => DictIndex(d, q[i]) < DictIndex(d, q[j])

\* C1: every entry of stock_data has a quantity strictly greater than 0, in
\* every store reached by add_item, remove_item, save_data and load_data.
C1_AllEntriesPositive == AllPositive(stock_data)

\* C2: get_qty(item) is the running sum of the quantities added minus the
\* quantities removed for the item, replaced by absence (0, not a key) when
\* that sum is <= 0.  Stated step by step: each add_item and each
\* remove_item of a key takes get_qty(item) to the floored sum, a
\* remove_item of an absent item removes nothing, and the other item is
\* left alone.
C2_RunningSumFloored ==
    [][\A s \in Names, n \in Quantities :
          /\ (\E logs \in LogsArgs : add_item(PyStr(s), PyInt(n), logs))
             => /\ GetQty(stock_data', s) = Floor0(GetQty(stock_data, s) + n)
                /\ DictHas(stock_data', s) <=> GetQty(stock_data, s) + n > 0
                /\ \A o \in Names \ {s} : GetQty(stock_data', o) = GetQty(stock_data, o)
          /\ remove_item(PyStr(s), PyInt(n))
             => /\ GetQty(stock_data', s) =
                      IF DictHas(stock_data, s) THEN Floor0(GetQty(stock_data, s) - n) ELSE 0
                /\ DictHas(stock_data', s) <=>
                      (DictHas(stock_data, s) /\ GetQty(stock_data, s) - n > 0)
                /\ \A o \in Names \ {s} : GetQty(stock_data', o) = GetQty(stock_data, o)
      ]_vars

\* C3: remove_item(item, qty) with qty >= get_qty(item) leaves get_qty(item)
\* equal to 0 and item not a key, so item is in neither the print_data lines
\* nor any check_low_items result.
C3_RemoveAtLeastAllDeletes ==
    [][\A s \in Names, n \in Quantities :
          (op' = "remove_item" /\ n >= GetQty(stock_data, s)
             /\ remove_item(PyStr(s), PyInt(n)))
          => /\ GetQty(stock_data', s) = 0
             /\ ~DictHas(stock_data', s)
             /\ \A i \in 1..Len(PrintData(stock_data')) : PrintData(stock_data')[i].name # s
             /\ \A th \in Thresholds : s \notin Range(CheckLowItems(stock_data', th))
      ]_vars
\* a removal that took the last entry out of the store
C3_Witness == op = "remove_item" /\ outcome.level = "info" /\ stock_data = <<>>

\* C4: no quantity is reported or persisted negative: get_qty is >= 0 for
\* every item, every print_data line has a qty >= 0, and every quantity in a
\* file written by save_data is >= 0.
C4_NeverNegative ==
    /\ \A s \in Names : GetQty(stock_data, s) >= 0
    /\ \A i \in 1..Len(PrintData(stock_data)) : PrintData(stock_data)[i].qty >= 0
    /\ saved.valid => \A i \in 1..Len(JsonLoad(file.text).data) :
                          JsonLoad(file.text).data[i].val >= 0

\* C5: add_item or remove_item with an item that is not a str or a qty that
\* is not an int leaves stock_data as it was, keys, quantities and order,
\* leaves the caller's logs list as it was, and returns without raising.
C5_IllTypedCallChangesNothing ==
    [][\A item \in ItemArgs, qty \in QtyArgs :
          IllTyped(item, qty) =>
             /\ \A logs \in LogsArgs :
                   (op' = "add_item" /\ add_item(item, qty, logs))
                   => stock_data' = stock_data /\ ret'.logs = logs /\ ~outcome'.raised
             /\ (op' = "remove_item" /\ remove_item(item, qty))
                   => stock_data' = stock_data /\ ~outcome'.raised
      ]_vars
\* an ill typed add_item was rejected with entries in the store and with a
\* logs list that held an entry
C5_Witness ==
    /\ op = "add_item" /\ outcome.level = "error"
    /\ Len(stock_data) = 2 /\ Len(ret.logs.entries) = 1

\* C6: add_item with the empty name is rejected and leaves stock_data as it
\* was, so the empty string is never a key.
C6_EmptyNameRejected ==
    [][/\ \A n \in Quantities, logs \in LogsArgs :
             add_item(PyStr(EmptyName), PyInt(n), logs)
             => stock_data' = stock_data /\ outcome'.level = "error"
       /\ ~DictHas(stock_data', EmptyName)
      ]_vars

\* C7: remove_item of a str that is not a key, with any int qty, leaves
\* stock_data as it was, logs a warning and not an error, and returns
\* without raising.
C7_RemoveAbsentWarns ==
    [][\A s \in Names, n \in Quantities :
          (op' = "remove_item" /\ ~DictHas(stock_data, s)
             /\ remove_item(PyStr(s), PyInt(n)))
          => /\ stock_data' = stock_data
             /\ outcome'.level = "warning"
             /\ ~outcome'.raised
      ]_vars
\* a removal of a missing item from a store that holds the other item
C7_Witness == op = "remove_item" /\ outcome.level = "warning" /\ Len(stock_data) = 1

\* C8: after load_data of the file a successful save_data wrote, stock_data
\* has the keys and the quantities the store had at that save, provided its
\* entries were all > 0, whatever add_item and remove_item did in between.
C8_SaveLoadRoundTrip ==
    (op = "load_data" /\ saved.valid /\ AllPositive(saved.data))
    => /\ outcome.level = "info"
       /\ Len(stock_data) = Len(saved.data)
       /\ Keys(stock_data) = Keys(saved.data)
       /\ \A k \in Keys(saved.data) : GetQty(stock_data, k) = GetQty(saved.data, k)
\* a load that brought back two saved entries
C8_Witness ==
    /\ op = "load_data" /\ saved.valid /\ AllPositive(saved.data)
    /\ Len(saved.data) = 2 /\ Len(stock_data) = 2

C10_LowItemsInInsertionOrder ==
    [][/\ \A th \in Thresholds :
             (op' = "check_low_items" /\ check_low_items(th))
             => /\ stock_data' = stock_data
                /\ Range(ret'.names) =
                      {k \in Keys(stock_data) : GetQty(stock_data, k) < th}
                /\ Len(ret'.names) = Cardinality(Range(ret'.names))
                /\ InDictOrder(ret'.names, stock_data)
       /\ op' = "add_item"
          => \/ KeyList(stock_data') = KeyList(stock_data)
             \/ \E s \in Names \ Keys(stock_data) :
                   KeyList(stock_data') = Append(KeyList(stock_data), s)
       /\ op' = "remove_item"
          => InDictOrder(KeyList(stock_data'), stock_data)
      ]_vars
\* a scan that returned the second of two entries and not the first
C10_Witness ==
    /\ op = "check_low_items" /\ Len(stock_data) = 2
    /\ ret.names = <<stock_data[2].key>>

====
